---- MODULE Spec2Model ----
(***************************************************************************)
(* Model of scripts/import_data.py: the FileMaker CSV importer.            *)
(*                                                                         *)
(* A Python str is a sequence of one-character tokens; a CSV row is a      *)
(* sequence of such strings; a table is the set of its rows, each row a    *)
(* tuple whose first component is the primary key ("FileMaker IDs as       *)
(* primary keys"), the only constraint the tables are taken to have.       *)
(* cursor.execute can raise on any row that reaches it (an integer beyond  *)
(* 64 bits, a store error); the reader can raise instead of yielding.      *)
(***************************************************************************)
EXTENDS Integers, Sequences, FiniteSets, TLC

VARIABLES
  pc,          \* where main() is
  kind,        \* index into Order of the importer that is running
  filesLeft,   \* input files that may still be found to exist
  budget,      \* rows the input files still hold, all files together
  row,         \* the loop variable row of the running importer
  execRaises,  \* whether cursor.execute raises for this row
  outcome,     \* the branch the last row took
  count,       \* local count
  errors,      \* local errors (skipped in import_links)
  source_id,   \* local source_id of import_sources
  printed,     \* per-row message lines printed for the last row
  dumps,       \* "Row data" lines the running importer has printed
  table,       \* the connection's view of each table
  durable,     \* what has been committed to poetry.db
  commits,     \* successful conn.commit() calls, per kind
  firstSeen,   \* history: per identity, the first row the running importer accepted
  stats,       \* what print_statistics printed
  text,        \* normalizer harness: the input of clean_text
  once,        \* normalizer harness: clean_text(text)
  twice,       \* normalizer harness: clean_text(clean_text(text))
  applied      \* normalizer harness: calls made

vars == <<pc, kind, filesLeft, budget, row, execRaises, outcome, count, errors,
          source_id, printed, dumps, table, durable, commits, firstSeen, stats,
          text, once, twice, applied>>

importVars == <<pc, kind, filesLeft, budget, row, execRaises, outcome, count, errors,
                source_id, printed, dumps, table, durable, commits, firstSeen, stats>>

cleanVars == <<text, once, twice, applied>>

---------------------------------------------------------------------------
(* Bounds of the model. *)

\* rows that all input files of one run hold together
MaxRows == 3
\* rows of the only input file of a run in which one file exists
MaxFileRows == 6
\* length of the strings given to clean_text
MaxLen == 3

---------------------------------------------------------------------------
(* Characters and Python's str and int primitives. *)

Pilcrow  == "PILCROW"
VTab     == "VT"
CR       == "CR"
LF       == "LF"
ReplChar == "FFFD"
Space    == " "
DQuote   == "DQ"
SuperTwo == "SUP2"

\* Python's None, as a value comparable with strings
None == <<"None">>

Digits == {"0", "1", "2", "3", "4", "5", "6", "7", "8", "9"}

DigitVal(c) ==
  CASE c = "0" -> 0 [] c = "1" -> 1 [] c = "2" -> 2 [] c = "3" -> 3
    [] c = "4" -> 4 [] c = "5" -> 5 [] c = "6" -> 6 [] c = "7" -> 7
    [] c = "8" -> 8 [] c = "9" -> 9

Whitespace == {Space, LF, CR, VTab}

RECURSIVE LStrip(_)
LStrip(s) ==
  IF s # <<>> /\ s[1] \in Whitespace THEN LStrip(Tail(s)) ELSE s

RECURSIVE RStrip(_)
RStrip(s) ==
  IF s # <<>> /\ s[Len(s)] \in Whitespace
  THEN RStrip(SubSeq(s, 1, Len(s) - 1))
  ELSE s

\* str.strip()
Strip(s) == RStrip(LStrip(s))

\* str.replace(a, b) for one-character a and b
ReplaceChar(s, a, b) == [i \in 1..Len(s) |-> IF s[i] = a THEN b ELSE s[i]]

\* str.replace('\r\n', '\n'): leftmost non-overlapping occurrences
RECURSIVE ReplaceCRLF(_)
ReplaceCRLF(s) ==
  IF s = <<>> THEN <<>>
  ELSE IF Len(s) >= 2 /\ s[1] = CR /\ s[2] = LF
       THEN <<LF>> \o ReplaceCRLF(SubSeq(s, 3, Len(s)))
       ELSE <<s[1]>> \o ReplaceCRLF(Tail(s))

\* bool(s) of a str
Truthy(s) == s # <<>>

RECURSIVE DecVal(_)
DecVal(s) ==
  IF s = <<>> THEN 0
  ELSE 10 * DecVal(SubSeq(s, 1, Len(s) - 1)) + DigitVal(s[Len(s)])

IsDigitChar(c) == c \in Digits

\* int(s): surrounding whitespace, an optional sign, digits with single
\* underscores between them; anything else is a ValueError (ok = FALSE)
ParseInt(s) ==
  LET t == Strip(s)
      signed == t # <<>> /\ t[1] \in {"+", "-"}
      body == IF signed THEN Tail(t) ELSE t
      wellFormed ==
        /\ body # <<>>
        /\ body[1] \in Digits
        /\ body[Len(body)] \in Digits
        /\ \A i \in 1..Len(body) : body[i] \in Digits \cup {"_"}
        /\ \A i \in 1..(Len(body) - 1) : ~(body[i] = "_" /\ body[i + 1] = "_")
      mag == DecVal(SelectSeq(body, IsDigitChar))
  IN IF wellFormed
     THEN [ok |-> TRUE, val |-> IF signed /\ t[1] = "-" THEN 0 - mag ELSE mag]
     ELSE [ok |-> FALSE, val |-> 0]

\* str.isdigit(): non-empty and every character has the Unicode digit
\* property, which the superscript two has although int() rejects it
IsDigitStr(s) ==
  s # <<>> /\ \A i \in 1..Len(s) : s[i] \in Digits \cup {SuperTwo}

---------------------------------------------------------------------------
(* clean_text *)

\* clean_text with the strip done before the replacements
CleanTextStripFirst(t) ==
  IF t = None \/ ~Truthy(t) THEN None
  ELSE LET t0 == Strip(t)
           t1 == ReplaceChar(t0, Pilcrow, LF)
           t2 == ReplaceChar(t1, VTab, LF)
           t3 == ReplaceCRLF(t2)
           t4 == ReplaceChar(t3, CR, LF)
           t5 == ReplaceChar(t4, ReplChar, DQuote)
       IN IF Truthy(t5) THEN t5 ELSE None

CleanText(t) ==
  IF t = None \/ ~Truthy(t) THEN None
  ELSE LET t1 == ReplaceChar(t, Pilcrow, LF)
           t2 == ReplaceChar(t1, VTab, LF)
           t3 == ReplaceCRLF(t2)
           t4 == ReplaceChar(t3, CR, LF)
           t5 == ReplaceChar(t4, ReplChar, DQuote)
           t6 == Strip(t5)
       IN IF Truthy(t6) THEN t6 ELSE None

---------------------------------------------------------------------------
(* Program constants and the order of main(). *)

\* "if errors < 5": the cap on "Row data" lines in import_items
ErrCap == 5
\* "source_id = 1000"
StartId == 1000

Order == <<"items", "links", "cliches", "names", "literary_terms", "sources">>

Kinds == 1..Len(Order)

TableNames == {Order[k] : k \in Kinds}

\* the minimum len(row) each importer asks for
MinFields(name) ==
  CASE name = "items" -> 10
    [] name = "links" -> 3
    [] name = "cliches" -> 2
    [] name = "names" -> 2
    [] name = "literary_terms" -> 2
    [] name = "sources" -> 2

EmptyDb == [n \in TableNames |-> {}]

\* a poetry.db left by an earlier run
OldDb ==
  [n \in TableNames |->
     CASE n = "items" ->
            {<<1, <<"o">>, <<"W">>, None, None, None, <<>>, <<>>, <<>>, <<"d">>>>}
       [] n = "sources" -> {<<StartId, <<"o">>, None, <<"o">>>>}
       [] OTHER -> {}]

NoStats == <<>>

---------------------------------------------------------------------------
(* The rows the input files are drawn from. *)

A == <<"a">>
B == <<"b">>

IdFields == {<<>>, <<"0">>, <<"1">>, <<"-", "1">>, <<"x">>}

MkItem(id, w) ==
  <<id, w, <<"W">>, <<"x", Pilcrow, "y">>, <<>>, <<Space>>, <<>>, <<>>, <<>>, <<"d">>>>

ItemRows ==
  {MkItem(id, A) : id \in IdFields}
    \cup {MkItem(<<"1">>, B),
          SubSeq(MkItem(<<"1">>, A), 1, 9),
          Append(MkItem(<<"2">>, B), <<"e">>)}

LinkRows ==
  {<<id, <<"1">>, <<"2">>>> : id \in IdFields}
    \cup {<<<<"1">>, <<"2">>, <<"1">>>>,
          <<<<"1">>, <<>>, <<"2">>>>,
          <<<<"1">>, <<"1">>, <<"0">>>>,
          <<<<"1">>, <<"x">>, <<"2">>>>,
          <<<<"1">>, <<"2">>>>}

ClicheRows ==
  {<<id, A>> : id \in IdFields}
    \cup {<<<<"1">>, B>>,
          <<<<Space, "1">>, A, <<"x", CR, LF>>>>,
          <<<<"2">>, A, <<Pilcrow>>>>,
          <<<<"1">>>>}

NameRows ==
  {<<id, A, <<"t">>, <<"g">>>> : id \in IdFields \ {<<"x">>}}
    \cup {<<<<"1">>, B, <<"t">>, <<"g">>>>,
          <<<<"2">>, A>>,
          <<<<"x">>, A>>,
          <<<<Space>>, A, <<"2">>, <<"t">>>>,
          <<<<"1">>>>}
    \cup {<<f0, A, f2, <<"t">>>> :
            f0 \in {<<>>, <<"x">>},
            f2 \in {<<"2">>, <<"0">>, <<SuperTwo>>, <<"t">>}}

LiteraryTermRows ==
  {<<id, A>> : id \in IdFields}
    \cup {<<<<"1">>, B, <<ReplChar, "x">>, <<Space>>>>,
          <<<<"2">>, B, <<"x", VTab>>, <<"y">>, <<CR, "z">>>>,
          <<<<"1">>>>}

SourceRows ==
  {<<A, <<"s">>, <<"t">>>>,
   <<A, <<"s">>, <<"t">>, <<"z">>>>,
   <<<<>>, <<"s">>>>,
   <<A, <<"s">>, <<>>>>,
   <<A, <<>>>>,
   <<A>>,
   <<>>}

Rows(name) ==
  CASE name = "items" -> ItemRows
    [] name = "links" -> LinkRows
    [] name = "cliches" -> ClicheRows
    [] name = "names" -> NameRows
    [] name = "literary_terms" -> LiteraryTermRows
    [] name = "sources" -> SourceRows

\* a row of each kind that reaches cursor.execute
Insertable(name) ==
  CASE name = "items" -> MkItem(<<"1">>, A)
    [] name = "links" -> <<<<"1">>, <<"1">>, <<"2">>>>
    [] name = "cliches" -> <<<<"1">>, A>>
    [] name = "names" -> <<<<"1">>, A, <<"t">>, <<"g">>>>
    [] name = "literary_terms" -> <<<<"1">>, A>>
    [] name = "sources" -> <<A, <<"s">>, <<"t">>>>

\* what the reader and the store can do on one pass of the loop: a row, and
\* whether cursor.execute raises when the row reaches it
Inputs(name) ==
  {<<r, FALSE>> : r \in Rows(name)} \cup {<<Insertable(name), TRUE>>}

---------------------------------------------------------------------------
(* What one pass of an importer's loop body does to one row. *)

\* row[i] if len(row) > i else default   (i counts from 0, as in the source)
FieldOr(r, i, default) == IF Len(r) > i THEN r[i + 1] ELSE default

\* clean_text(row[i]) if len(row) > i else None
CleanOr(r, i) == IF Len(r) > i THEN CleanText(r[i + 1]) ELSE None

\* int(s) if s else None
OptInt(s) ==
  IF ~Truthy(s) THEN [raised |-> FALSE, some |-> FALSE, val |-> 0]
  ELSE LET p == ParseInt(s)
       IN [raised |-> ~p.ok, some |-> p.ok, val |-> p.val]

\* "not x" that lets a zero through
NotIdNoneOnly(o) == ~o.some

\* "not x" of an optional integer: None or 0
NotId(o) == ~o.some \/ o.val = 0

\* a length test that also turns away a row of exactly m fields
TooShortOffByOne(r, m) == Len(r) <= m

\* len(row) < m
TooShort(r, m) == Len(r) < m

\* a cap that never closes
ShowRowDataAlways(errs) == TRUE

\* "if errors < 5", read after errors += 1
ShowRowData(errs) == errs < ErrCap

\* an allocator that skips a number
AllocateSkipping(sid) == sid + 2

\* source_id += 1
Allocate(sid) == sid + 1

\* INSERT OR REPLACE
InsertOrReplace(tbl, rec) == {r \in tbl : r[1] # rec[1]} \cup {rec}

\* INSERT OR IGNORE into a table whose first column is its primary key
InsertOrIgnore(tbl, rec) ==
  IF \E r \in tbl : r[1] = rec[1] THEN tbl ELSE tbl \cup {rec}

NoRec == <<>>

\* a row that is counted in errors/skipped; m message lines, d "Row data" lines
Rejected(o, m, d) ==
  [outcome |-> o, count |-> 0, errors |-> 1, msgs |-> m, dumps |-> d, rec |-> NoRec]

\* a row whose INSERT OR IGNORE ran
Accepted(rec) ==
  [outcome |-> "accepted", count |-> 1, errors |-> 0, msgs |-> 0, dumps |-> 0, rec |-> rec]

\* import_items: except Exception
ItemsExcept(errs) == Rejected("error", 1, IF ShowRowData(errs + 1) THEN 1 ELSE 0)

ItemsEffect(r, raises, errs) ==
  IF TooShort(r, MinFields("items")) THEN Rejected("short", 1, 0)
  ELSE LET id == OptInt(r[1])
       IN IF id.raised THEN ItemsExcept(errs)
          ELSE IF NotId(id) THEN Rejected("noid", 1, 0)
          ELSE IF raises THEN ItemsExcept(errs)
          ELSE Accepted(<<id.val,
                          FieldOr(r, 1, <<>>),
                          FieldOr(r, 2, <<"Reference">>),
                          CleanOr(r, 3),
                          CleanOr(r, 4),
                          CleanOr(r, 5),
                          FieldOr(r, 6, None),
                          FieldOr(r, 7, None),
                          FieldOr(r, 8, None),
                          FieldOr(r, 9, <<"now">>)>>)

LinksEffect(r, raises) ==
  IF TooShort(r, MinFields("links")) THEN Rejected("short", 0, 0)
  ELSE LET link == OptInt(r[1])
           src == OptInt(r[2])
           dst == OptInt(r[3])
       IN IF link.raised \/ src.raised \/ dst.raised THEN Rejected("error", 1, 0)
          ELSE IF ~NotId(link) /\ ~NotId(src) /\ ~NotId(dst)
               THEN IF raises THEN Rejected("error", 1, 0)
                    ELSE Accepted(<<link.val, src.val, dst.val, <<"related">>>>)
               ELSE Rejected("noid", 0, 0)

ClichesEffect(r, raises) ==
  IF TooShort(r, MinFields("cliches")) THEN Rejected("short", 0, 0)
  ELSE LET id == OptInt(r[1])
       IN IF id.raised THEN Rejected("error", 1, 0)
          ELSE IF NotId(id) THEN Rejected("noid", 0, 0)
          ELSE IF raises THEN Rejected("error", 1, 0)
          ELSE Accepted(<<id.val, FieldOr(r, 1, <<>>), CleanOr(r, 2)>>)

\* the row of import_names once name_id is known
NameRecord(r, id) ==
  <<id, FieldOr(r, 1, <<>>), FieldOr(r, 2, None), FieldOr(r, 3, None), None, None>>

NamesEffect(r, raises) ==
  IF TooShort(r, MinFields("names")) THEN Rejected("short", 0, 0)
  ELSE LET first == OptInt(r[1])
       IN IF first.raised
          THEN \* except ValueError: the old format [empty, name, id, type]
               IF Len(r) > 2 /\ IsDigitStr(r[3])
               THEN LET third == ParseInt(r[3])
                    IN IF ~third.ok THEN Rejected("error", 1, 0)
                       ELSE IF third.val = 0 THEN Rejected("noid", 0, 0)
                       ELSE IF raises THEN Rejected("error", 1, 0)
                       ELSE Accepted(NameRecord(r, third.val))
               ELSE Rejected("invalid", 1, 0)
          ELSE IF NotId(first) THEN Rejected("noid", 0, 0)
          ELSE IF raises THEN Rejected("error", 1, 0)
          ELSE Accepted(NameRecord(r, first.val))

LiteraryTermsEffect(r, raises) ==
  IF TooShort(r, MinFields("literary_terms")) THEN Rejected("short", 0, 0)
  ELSE LET id == OptInt(r[1])
       IN IF id.raised THEN Rejected("error", 1, 0)
          ELSE IF NotId(id) THEN Rejected("noid", 0, 0)
          ELSE IF raises THEN Rejected("error", 1, 0)
          ELSE Accepted(<<id.val, FieldOr(r, 1, <<>>), None,
                          CleanOr(r, 2), CleanOr(r, 3), CleanOr(r, 4)>>)

SourcesEffect(r, raises, sid) ==
  IF TooShort(r, MinFields("sources")) THEN Rejected("short", 0, 0)
  ELSE LET title == IF Len(r) > 2 THEN r[3] ELSE FieldOr(r, 1, <<>>)
           author == IF Truthy(r[1]) THEN r[1] ELSE None
       IN IF ~Truthy(title) THEN Rejected("noid", 0, 0)
          ELSE IF raises THEN Rejected("error", 1, 0)
          ELSE Accepted(<<sid, title, author, FieldOr(r, 1, None)>>)

---------------------------------------------------------------------------
(* main() and the six importers. *)

Name == Order[kind]

Aborts == {"abort_schema", "abort_read", "abort_commit"}

\* the locals of an importer that is not running
NoLocals ==
  /\ row' = <<>>
  /\ execRaises' = FALSE
  /\ outcome' = "none"
  /\ count' = 0
  /\ errors' = 0
  /\ source_id' = StartId
  /\ printed' = 0
  /\ dumps' = 0
  /\ firstSeen' = {}

\* an importer returns to main(), which calls the next one or print_statistics
Return ==
  /\ NoLocals
  /\ IF kind < Len(Order)
     THEN pc' = "import" /\ kind' = kind + 1
     ELSE pc' = "stats" /\ kind' = kind

\* create_database: unlink poetry.db if it exists, connect, run the schema
CreateDatabase ==
  /\ pc = "create"
  /\ table' = EmptyDb
  /\ durable' = EmptyDb
  /\ pc' = "import"
  /\ UNCHANGED <<kind, filesLeft, budget, row, execRaises, outcome, count, errors,
                 source_id, printed, dumps, commits, firstSeen, stats>>
  /\ UNCHANGED cleanVars

\* create_database: schema.sql cannot be read or executed; the old file is gone
SchemaFault ==
  /\ pc = "create"
  /\ table' = EmptyDb
  /\ durable' = EmptyDb
  /\ pc' = "abort_schema"
  /\ UNCHANGED <<kind, filesLeft, budget, row, execRaises, outcome, count, errors,
                 source_id, printed, dumps, commits, firstSeen, stats>>
  /\ UNCHANGED cleanVars

\* "if not csv_path.exists(): ... return": the file is not there
FileMissing ==
  /\ pc = "import"
  /\ Return
  /\ UNCHANGED <<filesLeft, budget, table, durable, commits, stats>>
  /\ UNCHANGED cleanVars

\* cursor, count = 0, errors = 0 (source_id = 1000), open, csv.reader
OpenFile ==
  /\ pc = "import"
  /\ filesLeft > 0
  /\ filesLeft' = filesLeft - 1
  /\ pc' = "rows"
  /\ count' = 0
  /\ errors' = 0
  /\ source_id' = StartId
  /\ UNCHANGED <<kind, budget, row, execRaises, outcome, printed, dumps,
                 table, durable, commits, firstSeen, stats>>
  /\ UNCHANGED cleanVars

\* "for row in reader": the reader yields the next row
NextRow ==
  /\ pc = "rows"
  /\ budget > 0
  /\ \E in \in Inputs(Name) :
       /\ row' = in[1]
       /\ execRaises' = in[2]
  /\ budget' = budget - 1
  /\ pc' = "row"
  /\ UNCHANGED <<kind, filesLeft, outcome, count, errors, source_id, printed, dumps,
                 table, durable, commits, firstSeen, stats>>
  /\ UNCHANGED cleanVars

\* "for row in reader": the reader raises (UnicodeDecodeError on bytes that
\* are not UTF-8, csv.Error on an over-long field); the for statement is
\* outside the try, so the exception leaves the importer and main()
ReadFault ==
  /\ pc = "rows"
  /\ budget > 0
  /\ pc' = "abort_read"
  /\ UNCHANGED <<kind, filesLeft, budget, row, execRaises, outcome, count, errors,
                 source_id, printed, dumps, table, durable, commits, firstSeen, stats>>
  /\ UNCHANGED cleanVars

\* the loop body with conn.commit() inside it
ApplyAndCommit(e) ==
  /\ pc' = "rows"
  /\ outcome' = e.outcome
  /\ count' = count + e.count
  /\ errors' = errors + e.errors
  /\ printed' = e.msgs
  /\ dumps' = dumps + e.dumps
  /\ table' = IF e.count = 1
              THEN [table EXCEPT ![Name] = InsertOrIgnore(@, e.rec)]
              ELSE table
  /\ durable' = table'
  /\ firstSeen' = IF e.count = 1 /\ ~(\E h \in firstSeen : h[1] = e.rec[1])
                  THEN firstSeen \cup {e.rec}
                  ELSE firstSeen
  /\ source_id' = IF e.count = 1 /\ Name = "sources"
                  THEN Allocate(source_id)
                  ELSE source_id
  /\ UNCHANGED <<kind, filesLeft, budget, row, execRaises, commits, stats>>
  /\ UNCHANGED cleanVars

\* the loop body has run on row with effect e
Apply(e) ==
  /\ pc' = "rows"
  /\ outcome' = e.outcome
  /\ count' = count + e.count
  /\ errors' = errors + e.errors
  /\ printed' = e.msgs
  /\ dumps' = dumps + e.dumps
  /\ table' = IF e.count = 1
              THEN [table EXCEPT ![Name] = InsertOrIgnore(@, e.rec)]
              ELSE table
  /\ firstSeen' = IF e.count = 1 /\ ~(\E h \in firstSeen : h[1] = e.rec[1])
                  THEN firstSeen \cup {e.rec}
                  ELSE firstSeen
  /\ source_id' = IF e.count = 1 /\ Name = "sources"
                  THEN Allocate(source_id)
                  ELSE source_id
  /\ UNCHANGED <<kind, filesLeft, budget, row, execRaises, durable, commits, stats>>
  /\ UNCHANGED cleanVars

ImportItemsRow ==
  /\ pc = "row" /\ Name = "items"
  /\ Apply(ItemsEffect(row, execRaises, errors))

ImportLinksRow ==
  /\ pc = "row" /\ Name = "links"
  /\ Apply(LinksEffect(row, execRaises))

ImportClichesRow ==
  /\ pc = "row" /\ Name = "cliches"
  /\ Apply(ClichesEffect(row, execRaises))

ImportNamesRow ==
  /\ pc = "row" /\ Name = "names"
  /\ Apply(NamesEffect(row, execRaises))

ImportLiteraryTermsRow ==
  /\ pc = "row" /\ Name = "literary_terms"
  /\ Apply(LiteraryTermsEffect(row, execRaises))

ImportSourcesRow ==
  /\ pc = "row" /\ Name = "sources"
  /\ Apply(SourcesEffect(row, execRaises, source_id))

\* the reader is exhausted: the with block closes the file
EndOfFile ==
  /\ pc = "rows"
  /\ pc' = "commit"
  /\ UNCHANGED <<kind, filesLeft, budget, row, execRaises, outcome, count, errors,
                 source_id, printed, dumps, table, durable, commits, firstSeen, stats>>
  /\ UNCHANGED cleanVars

\* conn.commit(), the count line, return
Commit ==
  /\ pc = "commit"
  /\ durable' = table
  /\ commits' = [commits EXCEPT ![kind] = @ + 1]
  /\ Return
  /\ UNCHANGED <<filesLeft, budget, table, stats>>
  /\ UNCHANGED cleanVars

\* conn.commit() raises: nothing catches it
CommitFault ==
  /\ pc = "commit"
  /\ pc' = "abort_commit"
  /\ UNCHANGED <<kind, filesLeft, budget, row, execRaises, outcome, count, errors,
                 source_id, printed, dumps, table, durable, commits, firstSeen, stats>>
  /\ UNCHANGED cleanVars

\* print_statistics, conn.close()
PrintStatistics ==
  /\ pc = "stats"
  /\ stats' = [n \in TableNames |-> Cardinality(table[n])]
  /\ pc' = "done"
  /\ UNCHANGED <<kind, filesLeft, budget, row, execRaises, outcome, count, errors,
                 source_id, printed, dumps, table, durable, commits, firstSeen>>
  /\ UNCHANGED cleanVars

\* the state main() starts in, given how many input files exist at most and how many rows they hold
Start(nf, n) ==
  /\ pc = "create"
  /\ kind = 1
  /\ filesLeft = nf
  /\ budget = n
  /\ row = <<>>
  /\ execRaises = FALSE
  /\ outcome = "none"
  /\ count = 0
  /\ errors = 0
  /\ source_id = StartId
  /\ printed = 0
  /\ dumps = 0
  /\ table \in {EmptyDb, OldDb}
  /\ durable = table
  /\ commits = [k \in Kinds |-> 0]
  /\ firstSeen = {}
  /\ stats = NoStats
  /\ text = None
  /\ once = None
  /\ twice = None
  /\ applied = 0

Init == Start(Len(Order), MaxRows)

Next ==
  \/ CreateDatabase
  \/ SchemaFault
  \/ FileMissing
  \/ OpenFile
  \/ NextRow
  \/ ReadFault
  \/ ImportItemsRow
  \/ ImportLinksRow
  \/ ImportClichesRow
  \/ ImportNamesRow
  \/ ImportLiteraryTermsRow
  \/ ImportSourcesRow
  \/ EndOfFile
  \/ Commit
  \/ CommitFault
  \/ PrintStatistics

Spec == Init /\ [][Next]_vars

\* a run in which exactly one input file exists
InitOneFile == Start(1, MaxFileRows)

SpecOneFile == InitOneFile /\ [][Next]_vars

---------------------------------------------------------------------------
(* clean_text on its own: every optional text up to MaxLen, cleaned twice. *)

Alphabet == {Pilcrow, VTab, CR, LF, ReplChar, Space, DQuote, "a"}

Texts == UNION {[1..n -> Alphabet] : n \in 0..MaxLen}

InitClean ==
  /\ text \in Texts \cup {None}
  /\ once = None
  /\ twice = None
  /\ applied = 0
  /\ pc = "clean"
  /\ kind = 1
  /\ filesLeft = 0
  /\ budget = 0
  /\ row = <<>>
  /\ execRaises = FALSE
  /\ outcome = "none"
  /\ count = 0
  /\ errors = 0
  /\ source_id = StartId
  /\ printed = 0
  /\ dumps = 0
  /\ table = EmptyDb
  /\ durable = EmptyDb
  /\ commits = [k \in Kinds |-> 0]
  /\ firstSeen = {}
  /\ stats = NoStats

CleanFirst ==
  /\ applied = 0
  /\ once' = CleanText(text)
  /\ applied' = 1
  /\ UNCHANGED <<text, twice>>
  /\ UNCHANGED importVars

CleanSecond ==
  /\ applied = 1
  /\ twice' = CleanText(once)
  /\ applied' = 2
  /\ UNCHANGED <<text, once>>
  /\ UNCHANGED importVars

NextClean == CleanFirst \/ CleanSecond

SpecClean == InitClean /\ [][NextClean]_vars

---------------------------------------------------------------------------
(* Properties. *)

IdentityKinds == {"items", "links", "cliches", "names", "literary_terms"}

\* the loop body is about to run on row
AtRow(names) == pc = "row" /\ Name \in names

\* the loop body counted row as imported
RowAccepted == count' = count + 1 /\ errors' = errors

\* the loop body counted row as one rejection and stored nothing
RowRejected ==
  /\ count' = count
  /\ errors' = errors + 1
  /\ table' = table
  /\ pc' = "rows"

Ids(tbl) == {r[1] : r \in tbl}

(* C8: clean_text is total and idempotent: on every optional text (None,   *)
(* empty, or a string over the pilcrow, vertical tab, CR, LF, U+FFFD,      *)
(* space and ordinary characters) it returns None or a non-empty string,   *)
(* and cleaning that result again returns it unchanged.                    *)
C8_CleanTextIdempotent ==
  /\ applied >= 1 => once \in (Texts \ {<<>>}) \cup {None}
  /\ applied = 2 => twice = once

C8_Witness ==
  /\ applied = 2
  /\ text = <<Pilcrow, ReplChar, CR>>
  /\ once = <<DQuote>>

(* C1: in the importers of the kinds whose identity comes from the input,  *)
(* the table never holds two rows with one identity, it holds exactly the  *)
(* first accepted row of every identity (while the rows are streamed and   *)
(* when the importer reaches its commit), a stored row is never changed or *)
(* removed, and a later row with a stored identity is counted as imported  *)
(* without changing the table and without an error.                        *)
C1_FirstRowWins ==
  [][ /\ AtRow(IdentityKinds) =>
           /\ \A r1, r2 \in table'[Name] : r1[1] = r2[1] => r1 = r2
           /\ table'[Name] = firstSeen'
           /\ table[Name] \subseteq table'[Name]
           /\ Cardinality(table'[Name]) <= Cardinality(table[Name]) + 1
           /\ count' = count => table' = table
           /\ (count' = count + 1 /\ Cardinality(table'[Name]) = Cardinality(table[Name]))
                => (table' = table /\ errors' = errors /\ outcome' = "accepted")
           /\ \A r \in table'[Name] \ table[Name] :
                /\ count' = count + 1
                /\ Name # "links" => r[2] = row[2]
                /\ Name = "links" => r[2] = ParseInt(row[2]).val /\ r[3] = ParseInt(row[3]).val
      /\ (pc = "commit" /\ Name \in IdentityKinds) =>
           /\ table[Name] = firstSeen
           /\ Cardinality(Ids(table[Name])) = Cardinality(table[Name])
    ]_vars

C1_Witness ==
  /\ pc = "rows"
  /\ Name = "items"
  /\ row = MkItem(<<"1">>, B)
  /\ outcome = "accepted"
  /\ count = 2
  /\ errors = 0
  /\ Cardinality(table["items"]) = 1
  /\ \E r \in table["items"] : r[1] = 1 /\ r[2] = A

PrimaryIdKinds == {"items", "cliches", "literary_terms"}

(* C2 as stated: in Item, Cliche and Literary Term, and in Name when the   *)
(* first field is the identity, a row with enough fields is accepted only  *)
(* if its identity field parses as a positive integer.                     *)
C2_OnlyPositiveAccepted ==
  [][ (/\ pc = "row"
       /\ Name \in PrimaryIdKinds \cup {"names"}
       /\ ~TooShort(row, MinFields(Name))
       /\ Name = "names" => ParseInt(row[1]).ok
       /\ count' = count + 1)
        => (ParseInt(row[1]).ok /\ ParseInt(row[1]).val > 0)
    ]_vars

(* C2 amended: such a row is accepted only if its identity field is        *)
(* non-empty and parses as a non-zero integer, negative ones included, and *)
(* it is then stored under that integer; a row whose identity field is     *)
(* empty, zero or (outside Name) non-numeric is counted as one rejection,  *)
(* nothing is inserted for it, and the loop goes on.                       *)
C2_OnlyNonZeroAccepted ==
  [][ (pc = "row" /\ Name \in PrimaryIdKinds \cup {"names"}
         /\ ~TooShort(row, MinFields(Name))) =>
        LET p == ParseInt(row[1])
            primary == Name \in PrimaryIdKinds \/ p.ok \/ ~Truthy(row[1])
        IN /\ (primary /\ count' = count + 1)
                => (Truthy(row[1]) /\ p.ok /\ p.val # 0 /\ p.val \in Ids(table'[Name]))
           /\ (primary /\ (~Truthy(row[1]) \/ ~p.ok \/ p.val = 0)) => RowRejected
    ]_vars

C2_Witness ==
  /\ pc = "rows"
  /\ Name = "cliches"
  /\ row = <<<<"-", "1">>, A>>
  /\ outcome = "accepted"
  /\ count = 1
  /\ (0 - 1) \in Ids(table["cliches"])

(* C3: a Name row with at least three fields whose first field gives no    *)
(* integer (it is empty or not numeric) and whose third field is a         *)
(* positive integer is accepted and stored under the third field's value,  *)
(* unless the insert itself raises.                                        *)
C3_FallbackOnNoFirstId ==
  [][ (/\ pc = "row"
       /\ Name = "names"
       /\ Len(row) >= 3
       /\ (~Truthy(row[1]) \/ ~ParseInt(row[1]).ok)
       /\ ParseInt(row[3]).ok
       /\ ParseInt(row[3]).val > 0
       /\ ~execRaises)
        => (RowAccepted /\ ParseInt(row[3]).val \in Ids(table'["names"]))
    ]_vars

(* C4: in import_sources the k-th accepted row is stored under             *)
(* 1000 + k - 1: the counter starts at 1000, grows by one on an accepted   *)
(* row and stays on a rejected one (too few fields, no title, a fault), so *)
(* after N accepted rows the stored identities are exactly                 *)
(* 1000 .. 1000 + N - 1, one row each.                                     *)
C4_SequentialSourceIds ==
  [][ AtRow({"sources"}) =>
        /\ source_id = StartId + count
        /\ count' \in {count, count + 1}
        /\ count' = count + 1 =>
             /\ source_id' = source_id + 1
             /\ \E r \in table'["sources"] \ table["sources"] :
                  /\ r[1] = StartId + count' - 1
                  /\ r[2] = (IF Len(row) > 2 THEN row[3] ELSE row[2])
        /\ count' = count => (source_id' = source_id /\ RowRejected)
        /\ (TooShort(row, 2) \/ execRaises) => count' = count
        /\ (Len(row) >= 2 /\ ~Truthy(IF Len(row) > 2 THEN row[3] ELSE row[2]))
             => count' = count
        /\ Ids(table'["sources"]) = StartId .. (StartId + count' - 1)
        /\ Cardinality(table'["sources"]) = count'
    ]_vars

C4_Witness ==
  /\ pc = "rows"
  /\ Name = "sources"
  /\ outcome = "accepted"
  /\ count = 2
  /\ errors = 1
  /\ Ids(table["sources"]) = {StartId, StartId + 1}

(* C5: a failure confined to one row never aborts an importer: when the    *)
(* reader is asked for the next row the importer goes on to a row or to    *)
(* its commit, and a row that fails is counted as one rejection, stores    *)
(* nothing, and returns the importer to its loop.                          *)
C5_RowFailureIsolated ==
  [][ /\ pc = "rows" => pc' \in {"row", "commit"}
      /\ pc = "row" => (pc' = "rows" /\ (count' = count => RowRejected))
    ]_vars

(* C6 as stated: once the first few failing rows of a kind have been       *)
(* logged (the cap of the code: the rejection counter below 5), a further  *)
(* failing row is counted but prints no per-row line.                      *)
C6_OutputCapped ==
  [][ (pc = "row" /\ errors >= ErrCap - 1 /\ errors' = errors + 1)
        => (printed' = 0 /\ dumps' = dumps)
    ]_vars

(* C6 amended: only the "Row data" line of import_items is capped. It is   *)
(* printed for a row that raised, and only while the rejection counter     *)
(* that includes the row is below 5, so at most 4 times in a run; no other *)
(* importer prints it. The message lines are not capped: every row that    *)
(* raises prints one, in every kind, as does every Item row skipped for    *)
(* its shape or its missing ID and every Name row whose fallback fails.    *)
C6_OnlyItemRowDataCapped ==
  [][ pc = "row" =>
        /\ dumps' <= ErrCap - 1
        /\ Name # "items" => dumps' = 0
        /\ dumps' \in {dumps, dumps + 1}
        /\ dumps' = dumps + 1 <=> (Name = "items" /\ outcome' = "error" /\ errors' < ErrCap)
        /\ outcome' = "error" => printed' = 1
        /\ (Name = "items" /\ outcome' \in {"short", "noid"}) => printed' = 1
        /\ (Name = "names" /\ outcome' = "invalid") => printed' = 1
    ]_vars

C6_Witness ==
  /\ pc = "rows"
  /\ Name = "items"
  /\ outcome = "error"
  /\ errors = ErrCap
  /\ dumps = ErrCap - 1
  /\ printed = 1

(* C7: a run that has stopped without a fatal store fault (schema load or  *)
(* commit) has attempted all six importers in the order of main() and has  *)
(* printed the final row counts; while one kind is streamed every earlier  *)
(* kind is committed and every later table is untouched.                   *)
C7_AllKindsAttemptedInOrder ==
  /\ pc \in {"done"} \cup Aborts =>
       \/ pc \in {"abort_schema", "abort_commit"}
       \/ pc = "done" /\ kind = Len(Order) /\ stats # NoStats
  /\ pc \in {"import", "rows", "row", "commit"} =>
       /\ \A j \in 1..(kind - 1) : durable[Order[j]] = table[Order[j]]
       /\ \A j \in (kind + 1)..Len(Order) : table[Order[j]] = {}
  /\ pc = "done" => \A n \in TableNames : stats[n] = Cardinality(durable[n])

(* C9 as stated: a row with fewer than the minimum number of fields is     *)
(* counted as one rejection and inserts nothing; a row with exactly the    *)
(* minimum is never rejected for its shape and is accepted whenever its    *)
(* identity (for Source, its title) is valid and the insert does not raise. *)
C9_MinFieldsThenIdentity ==
  [][ pc = "row" =>
        LET m == MinFields(Name)
            valid == IF Name = "sources"
                     THEN Truthy(row[2])
                     ELSE ParseInt(row[1]).ok /\ ParseInt(row[1]).val > 0
        IN /\ Len(row) < m => (RowRejected /\ outcome' = "short")
           /\ Len(row) = m =>
                /\ outcome' # "short"
                /\ (valid /\ ~execRaises) => RowAccepted
    ]_vars

(* C9 amended: as stated, except that a Link row with exactly three fields *)
(* is accepted only when its source and destination ids are non-zero       *)
(* integers as well as its link id.                                        *)
C9_MinFieldsThenAllKeys ==
  [][ pc = "row" =>
        LET m == MinFields(Name)
            positive(s) == ParseInt(s).ok /\ ParseInt(s).val > 0
            nonzero(s) == ParseInt(s).ok /\ ParseInt(s).val # 0
            valid == CASE Name = "sources" -> Truthy(row[2])
                       [] Name = "links" ->
                            positive(row[1]) /\ nonzero(row[2]) /\ nonzero(row[3])
                       [] OTHER -> positive(row[1])
        IN /\ Len(row) < m => (RowRejected /\ outcome' = "short")
           /\ Len(row) = m =>
                /\ outcome' # "short"
                /\ (valid /\ ~execRaises) => RowAccepted
    ]_vars

C9_Witness ==
  /\ pc = "rows"
  /\ Name = "links"
  /\ row = <<<<"1">>, <<"1">>, <<"2">>>>
  /\ ~execRaises
  /\ outcome = "accepted"
  /\ count = 1
  /\ errors = 1

(* C10: an importer commits only from its exhausted state and at most      *)
(* once; nothing of a kind is committed while its rows are streamed; a row *)
(* step, failed or not, goes back to the loop without committing; an       *)
(* importer that streamed its file returns only after exactly one commit;  *)
(* a commit failure ends the run there, with nothing committed and no      *)
(* later kind imported.                                                    *)
C10_CommitOnceWhenExhausted ==
  [][ /\ pc \notin Aborts
      /\ \A k \in Kinds : commits'[k] <= 1
      /\ commits' # commits =>
           /\ pc = "commit"
           /\ commits' = [commits EXCEPT ![kind] = 1]
           /\ durable' = table
           /\ table' = table
      /\ durable' # durable => pc \in {"create", "commit"}
      /\ pc \in {"rows", "row"} =>
           /\ commits[kind] = 0
           /\ durable[Name] = {}
           /\ commits' = commits
           /\ durable' = durable
      /\ pc = "row" => pc' = "rows"
      /\ (pc = "commit" /\ pc' # "abort_commit") =>
           (commits[kind] = 0 /\ commits'[kind] = 1 /\ pc' \in {"import", "stats"})
      /\ (pc = "commit" /\ pc' = "abort_commit") =>
           (commits' = commits /\ durable' = durable /\ kind' = kind)
      /\ (kind' # kind \/ pc' = "stats") =>
           /\ pc \in {"commit", "import"}
           /\ pc = "commit" <=> commits'[kind] = 1
    ]_vars

C10_Witness ==
  /\ pc = "import"
  /\ kind = 2
  /\ commits[1] = 1
  /\ Cardinality(durable["items"]) = 2

====
